---- MODULE Spec2Model ----
(***************************************************************************)
(* In-memory credential service (AuthService) and the form handlers of the *)
(* React App that drive it.                                                *)
(*                                                                         *)
(* A JavaScript string is a sequence of one-character strings.  A value    *)
(* passed to the service is a record [type, val]: type is the result of    *)
(* typeof, val the characters of a string (empty for a non-string).        *)
(***************************************************************************)
EXTENDS Integers, Sequences, FiniteSets, TLC

(* ------------------------------ bounds -------------------------------- *)

\* longest raw username drawn as an input
MaxULen == 4
\* longest password drawn as an input
MaxPLen == 7

(* -------------------------- program constants ------------------------- *)

MIN_USERNAME_LENGTH == 3
MIN_PASSWORD_LENGTH == 6

(* ------------------------------ strings ------------------------------- *)

\* letters of the usernames drawn as inputs: a cased letter in both cases
Letters == {"a", "A"}
\* characters of the passwords drawn as inputs to the service
PChars == {"s"}
\* characters of the passwords drawn as inputs to the validator alone
VChars == {"s", " "}

\* the characters String.prototype.trim removes, among those drawn
WhiteSpace == {" "}

\* all strings over chars of length 0..n
Strings(chars, n) == UNION {[1..k -> chars] : k \in 0..n}

Str(s) == [type |-> "string", val |-> s]
\* a value that is not a string (a number)
NonString == [type |-> "number", val |-> <<>>]

RECURSIVE trimStart(_)
trimStart(s) ==
  IF s # <<>> /\ Head(s) \in WhiteSpace THEN trimStart(Tail(s)) ELSE s

RECURSIVE trimEnd(_)
trimEnd(s) ==
  IF s # <<>> /\ s[Len(s)] \in WhiteSpace
  THEN trimEnd(SubSeq(s, 1, Len(s) - 1))
  ELSE s

\* String.prototype.trim
trim(s) == trimEnd(trimStart(s))

lowerChar(c) == IF c = "A" THEN "a" ELSE c

\* String.prototype.toLowerCase
toLowerCase(s) == [i \in 1..Len(s) |-> lowerChar(s[i])]

\* normalizeUsername: username.trim().toLowerCase(), on the characters
normalizeUsername(username) == toLowerCase(trim(username))

(* ----------------------------- validation ----------------------------- *)
\* (definitions marked "faulty variant" are not the program: each is the
\* program with one slip, kept to show which property tells them apart)

\* faulty variant: rule 4 measures the trimmed password
validateTrimmedPassword(username, password) ==
  IF username.type # "string" \/ password.type # "string"
  THEN [valid |-> FALSE, error |-> "Username and password must be strings."]
  ELSE LET strippedUsername == trim(username.val)
       IN IF strippedUsername = <<>>
          THEN [valid |-> FALSE, error |-> "Username cannot be empty."]
          ELSE IF Len(strippedUsername) < MIN_USERNAME_LENGTH
          THEN [valid |-> FALSE,
                error |-> "Username must be at least "
                          \o ToString(MIN_USERNAME_LENGTH) \o " characters."]
          ELSE IF Len(trim(password.val)) < MIN_PASSWORD_LENGTH
          THEN [valid |-> FALSE,
                error |-> "Password must be at least "
                          \o ToString(MIN_PASSWORD_LENGTH) \o " characters."]
          ELSE [valid |-> TRUE, error |-> ""]

validateCredentials(username, password) ==
  IF username.type # "string" \/ password.type # "string"
  THEN [valid |-> FALSE, error |-> "Username and password must be strings."]
  ELSE LET strippedUsername == trim(username.val)
       IN IF strippedUsername = <<>>
          THEN [valid |-> FALSE, error |-> "Username cannot be empty."]
          ELSE IF Len(strippedUsername) < MIN_USERNAME_LENGTH
          THEN [valid |-> FALSE,
                error |-> "Username must be at least "
                          \o ToString(MIN_USERNAME_LENGTH) \o " characters."]
          ELSE IF Len(password.val) < MIN_PASSWORD_LENGTH
          THEN [valid |-> FALSE,
                error |-> "Password must be at least "
                          \o ToString(MIN_PASSWORD_LENGTH) \o " characters."]
          ELSE [valid |-> TRUE, error |-> ""]

(* ------------------------------ service ------------------------------- *)

\* the Map this.users: a function from keys to account objects
NoUsers == [k \in {} |-> {}]

has(store, key) == key \in DOMAIN store

\* Map.set: insert or overwrite
set(store, key, value) ==
  [k \in DOMAIN store \cup {key} |-> IF k = key THEN value ELSE store[k]]

Response(status, body) == [status |-> status, body |-> body]

\* faulty variant: the account is stored under the raw username
registerRawKey(store, username, password) ==
  LET v == validateCredentials(username, password)
  IN IF ~v.valid
     THEN [users |-> store, response |-> Response(400, [error |-> v.error])]
     ELSE LET normalizedUsername == normalizeUsername(username.val)
          IN IF has(store, normalizedUsername)
             THEN [users |-> store,
                   response |->
                     Response(409, [error |-> "Username already exists."])]
             ELSE [users |->
                     set(store, username.val,
                         [username |-> normalizedUsername,
                          password |-> password.val]),
                   response |->
                     Response(201, [message |-> "Registration successful."])]

\* faulty variant: no check for an existing account
registerOverwrite(store, username, password) ==
  LET v == validateCredentials(username, password)
  IN IF ~v.valid
     THEN [users |-> store, response |-> Response(400, [error |-> v.error])]
     ELSE LET normalizedUsername == normalizeUsername(username.val)
          IN [users |->
                set(store, normalizedUsername,
                    [username |-> normalizedUsername,
                     password |-> password.val]),
              response |->
                Response(201, [message |-> "Registration successful."])]

\* faulty variant: the existing account is looked up before validation
registerCheckFirst(store, username, password) ==
  LET v == validateCredentials(username, password)
      normalizedUsername == normalizeUsername(username.val)
  IN IF has(store, normalizedUsername)
     THEN [users |-> store,
           response |->
             Response(409, [error |-> "Username already exists."])]
     ELSE IF ~v.valid
     THEN [users |-> store, response |-> Response(400, [error |-> v.error])]
     ELSE [users |->
             set(store, normalizedUsername,
                 [username |-> normalizedUsername,
                  password |-> password.val]),
           response |->
             Response(201, [message |-> "Registration successful."])]

\* AuthService.register: the response and the store it leaves
register(store, username, password) ==
  LET v == validateCredentials(username, password)
  IN IF ~v.valid
     THEN [users |-> store, response |-> Response(400, [error |-> v.error])]
     ELSE LET normalizedUsername == normalizeUsername(username.val)
          IN IF has(store, normalizedUsername)
             THEN [users |-> store,
                   response |->
                     Response(409, [error |-> "Username already exists."])]
             ELSE [users |->
                     set(store, normalizedUsername,
                         [username |-> normalizedUsername,
                          password |-> password.val]),
                   response |->
                     Response(201, [message |-> "Registration successful."])]

\* faulty variant: the account is looked up under the raw username
loginRaw(store, username, password) ==
  LET v == validateCredentials(username, password)
  IN IF ~v.valid
     THEN [users |-> store, response |-> Response(400, [error |-> v.error])]
     ELSE IF ~has(store, username.val)
             \/ store[username.val].password # password.val
     THEN [users |-> store,
           response |->
             Response(401, [error |-> "Invalid username or password."])]
     ELSE [users |-> store,
           response |-> Response(200, [message |-> "Login successful."])]

\* faulty variant: a missing account is told apart from a wrong password
loginReveal(store, username, password) ==
  LET v == validateCredentials(username, password)
  IN IF ~v.valid
     THEN [users |-> store, response |-> Response(400, [error |-> v.error])]
     ELSE LET normalizedUsername == normalizeUsername(username.val)
          IN IF ~has(store, normalizedUsername)
             THEN [users |-> store,
                   response |-> Response(404, [error |-> "User not found."])]
             ELSE IF store[normalizedUsername].password # password.val
             THEN [users |-> store,
                   response |->
                     Response(401,
                              [error |-> "Invalid username or password."])]
             ELSE [users |-> store,
                   response |->
                     Response(200, [message |-> "Login successful."])]

\* faulty variant: a successful login writes the account back, under the raw
\* username
loginWriteBack(store, username, password) ==
  LET v == validateCredentials(username, password)
  IN IF ~v.valid
     THEN [users |-> store, response |-> Response(400, [error |-> v.error])]
     ELSE LET normalizedUsername == normalizeUsername(username.val)
          IN IF ~has(store, normalizedUsername)
                \/ store[normalizedUsername].password # password.val
             THEN [users |-> store,
                   response |->
                     Response(401,
                              [error |-> "Invalid username or password."])]
             ELSE [users |->
                     set(store, username.val, store[normalizedUsername]),
                   response |->
                     Response(200, [message |-> "Login successful."])]

\* AuthService.login: the response and the store it leaves
login(store, username, password) ==
  LET v == validateCredentials(username, password)
  IN IF ~v.valid
     THEN [users |-> store, response |-> Response(400, [error |-> v.error])]
     ELSE LET normalizedUsername == normalizeUsername(username.val)
          IN IF ~has(store, normalizedUsername)
                \/ store[normalizedUsername].password # password.val
             THEN [users |-> store,
                   response |->
                     Response(401,
                              [error |-> "Invalid username or password."])]
             ELSE [users |-> store,
                   response |->
                     Response(200, [message |-> "Login successful."])]

(* ------------------------------- inputs ------------------------------- *)

\* the raw usernames drawn: letters with white space before and after, of
\* length 0..MaxULen in all
RawUsernames ==
  {lead \o core \o trail :
     <<lead, core, trail>> \in
       {t \in Strings(WhiteSpace, MaxULen) \X Strings(Letters, MaxULen)
              \X Strings(WhiteSpace, MaxULen) :
          Len(t[1]) + Len(t[2]) + Len(t[3]) <= MaxULen}}

\* the raw passwords drawn for the service: the empty one, the longest
\* rejected one and every accepted one up to MaxPLen
RawPasswords ==
  {s \in Strings(PChars, MaxPLen) :
     Len(s) = 0 \/ Len(s) >= MIN_PASSWORD_LENGTH - 1}

Usernames == {Str(s) : s \in RawUsernames} \cup {NonString}
Passwords == {Str(s) : s \in RawPasswords} \cup {NonString}
\* the value of an <input> element is always a string
FieldUsernames == {Str(s) : s \in RawUsernames}
FieldPasswords == {Str(s) : s \in RawPasswords}
\* the validator alone is run on passwords of every length up to MaxPLen
ProbePasswords == {Str(s) : s \in Strings(VChars, MaxPLen)} \cup {NonString}

(* ------------------------------- state -------------------------------- *)

VARIABLES
  users,     \* AuthService.users
  result,    \* App's result state: {} for null, else {the object set}
  call,      \* observer: the call whose response its caller is holding
  accepted,  \* observer: key -> the passwords whose registration got 201
  probe      \* the validator on its own: {} or {[arguments, {verdict}]}

vars == <<users, result, call, accepted, probe>>

\* the key a username stands for (none for a non-string)
KeyOf(username) ==
  IF username.type = "string" THEN normalizeUsername(username.val) ELSE <<>>

NoCall ==
  [op |-> "none", username |-> NonString, password |-> NonString,
   status |-> 0, body |-> [message |-> ""],
   present |-> FALSE, match |-> FALSE, changed |-> FALSE, again |-> ""]

Init ==
  /\ users = NoUsers
  /\ result = {}
  /\ call = NoCall
  /\ accepted = NoUsers
  /\ probe = {}

\* what an observer of one call records: the arguments, the response, and
\* how the arguments stood to the store the call found
Observe(op, username, password, r, again) ==
  LET key == KeyOf(username)
  IN [op |-> op, username |-> username, password |-> password,
      status |-> r.response.status, body |-> r.response.body,
      present |-> key \in DOMAIN users,
      match |-> /\ key \in DOMAIN accepted
                /\ password.type = "string"
                /\ accepted[key][1] = password.val,
      changed |-> r.users # users,
      again |-> again]

\* the passwords accepted so far, after this call
Accept(op, username, password, r) ==
  LET key == KeyOf(username)
  IN IF op = "register" /\ r.response.status = 201
     THEN set(accepted, key,
              (IF key \in DOMAIN accepted THEN accepted[key] ELSE <<>>)
              \o <<password.val>>)
     ELSE accepted

\* a caller of AuthService.register
Register ==
  /\ call.op = "none"
  /\ \E username \in Usernames, password \in Passwords :
       LET r == register(users, username, password)
       IN /\ users' = r.users
          /\ call' = Observe("register", username, password, r, "")
          /\ accepted' = Accept("register", username, password, r)
          /\ UNCHANGED <<result, probe>>

\* a caller of AuthService.login
Login ==
  /\ call.op = "none"
  /\ \E username \in Usernames, password \in Passwords :
       LET r == login(users, username, password)
       IN /\ users' = r.users
          /\ call' = Observe("login", username, password, r, "")
          /\ accepted' = Accept("login", username, password, r)
          /\ UNCHANGED <<result, probe>>

\* the caller of a registration that got 201 or 409 goes on to log in with
\* the very arguments it registered with
LoginAgain ==
  LET r == login(users, call.username, call.password)
  IN /\ call.op = "register"
     /\ call.status \in {201, 409}
     /\ users' = r.users
     /\ call' = Observe("login", call.username, call.password, r,
                        IF call.status = 201 THEN "created" ELSE "rejected")
     /\ accepted' = Accept("login", call.username, call.password, r)
     /\ UNCHANGED <<result, probe>>

\* the caller is done with the response
Return ==
  /\ call.op # "none"
  /\ call' = NoCall
  /\ UNCHANGED <<users, result, accepted, probe>>

Next == Register \/ Login \/ LoginAgain \/ Return

Spec == Init /\ [][Next]_vars

(* --------------------------------- App -------------------------------- *)

\* { action, status, ...response.body }
Spread(action, response) ==
  IF "message" \in DOMAIN response.body
  THEN [action |-> action, status |-> response.status,
        message |-> response.body.message]
  ELSE [action |-> action, status |-> response.status,
        error |-> response.body.error]

\* what stays of an observation once the handler has returned: the fields it
\* read may have been overwritten since
Seen(c) == [c EXCEPT !.username = NonString, !.password = NonString]

\* faulty variant: every submit builds a new AuthService (no useMemo)
handleRegisterFresh ==
  \E registerUsername \in FieldUsernames, registerPassword \in FieldPasswords :
    LET r == register(NoUsers, registerUsername, registerPassword)
    IN /\ users' = r.users
       /\ result' = {Spread("Register", r.response)}
       /\ accepted' = Accept("register", registerUsername, registerPassword, r)
       /\ call' = Seen(Observe("register", registerUsername,
                               registerPassword, r, ""))
       /\ UNCHANGED probe

\* The four input fields are freely overwritten by onChange between two
\* submits, so a submit handler reads arbitrary strings: each handler draws
\* the two fields it reads.  authService is the one instance of useMemo.
handleRegister ==
  \E registerUsername \in FieldUsernames, registerPassword \in FieldPasswords :
    LET r == register(users, registerUsername, registerPassword)
    IN /\ users' = r.users
       /\ result' = {Spread("Register", r.response)}
       /\ accepted' = Accept("register", registerUsername, registerPassword, r)
       /\ call' = Seen(Observe("register", registerUsername,
                               registerPassword, r, ""))
       /\ UNCHANGED probe

handleLogin ==
  \E loginUsername \in FieldUsernames, loginPassword \in FieldPasswords :
    LET r == login(users, loginUsername, loginPassword)
    IN /\ users' = r.users
       /\ result' = {Spread("Login", r.response)}
       /\ accepted' = Accept("login", loginUsername, loginPassword, r)
       /\ call' = Seen(Observe("login", loginUsername, loginPassword, r, ""))
       /\ UNCHANGED probe

NextApp == handleRegister \/ handleLogin

SpecApp == Init /\ [][NextApp]_vars

(* ----------------------- the validator on its own ---------------------- *)

InitValidate ==
  /\ users = NoUsers
  /\ result = {}
  /\ call = NoCall
  /\ accepted = NoUsers
  /\ probe \in {{[username |-> u, password |-> p, verdict |-> {}]} :
                  u \in Usernames, p \in ProbePasswords}

Validate ==
  /\ \E p \in probe :
       /\ p.verdict = {}
       /\ probe' = {[p EXCEPT
                       !.verdict = {validateCredentials(p.username,
                                                        p.password)}]}
  /\ UNCHANGED <<users, result, call, accepted>>

NextValidate == Validate

SpecValidate == InitValidate /\ [][NextValidate]_vars

(* ------------------------------ properties ---------------------------- *)

\* the observed call's arguments pass validateCredentials
Valid(c) == validateCredentials(c.username, c.password).valid

Created == [message |-> "Registration successful."]
LoggedIn == [message |-> "Login successful."]
Conflict == [error |-> "Username already exists."]
Unauthorized == [error |-> "Invalid username or password."]

\* C1: a registration with valid arguments whose normalized username has no
\* account returns 201 {message: "Registration successful."}, and the login
\* that follows it with the same raw arguments returns 200
\* {message: "Login successful."}.
C1_RegisterThenLogin ==
  /\ (call.op = "register" /\ Valid(call) /\ ~call.present)
       => (call.status = 201 /\ call.body = Created)
  /\ (call.op = "login" /\ call.again = "created")
       => (call.status = 200 /\ call.body = LoggedIn)

\* C1 witness: a login repeating a registration whose raw username was
\* neither trimmed nor lower case has returned 200.
C1_Witness ==
  /\ call.op = "login"
  /\ call.again = "created"
  /\ call.status = 200
  /\ Len(call.username.val) > Len(trim(call.username.val))
  /\ toLowerCase(call.username.val) # call.username.val

\* C2: a login with valid arguments returns 200 whenever its normalized
\* username is the key of a successful registration made with the same
\* password, whatever the casing and the outer white space of the username.
C2_LoginNormalizes ==
  (call.op = "login" /\ Valid(call) /\ call.match)
    => (call.status = 200 /\ call.body = LoggedIn)

\* C2 witness: a login that is no repeat, under a username that is not in
\* normalized form, has returned 200.
C2_Witness ==
  /\ call.op = "login"
  /\ call.again = ""
  /\ call.match
  /\ call.username.val # KeyOf(call.username)
  /\ call.status = 200

\* C3: the store never holds two accounts whose normalized usernames are
\* equal; a registration with valid arguments whose key has an account
\* returns 409 {error: "Username already exists."} and leaves the store
\* unchanged, so each key keeps exactly one account, with the credential of
\* the first registration.
C3_Uniqueness ==
  /\ \A k1 \in DOMAIN users : \A k2 \in DOMAIN users :
       normalizeUsername(k1) = normalizeUsername(k2) => k1 = k2
  /\ (call.op = "register" /\ Valid(call) /\ call.present)
       => (call.status = 409 /\ call.body = Conflict /\ ~call.changed)
  /\ DOMAIN users = DOMAIN accepted
  /\ \A k \in DOMAIN users :
       /\ users[k].username = k
       /\ Len(accepted[k]) = 1
       /\ users[k].password = accepted[k][1]

\* C3 witness: a registration under another raw username and another
\* password than the account of its key has returned 409.
C3_Witness ==
  /\ call.op = "register"
  /\ call.status = 409
  /\ call.username.val # KeyOf(call.username)
  /\ KeyOf(call.username) \in DOMAIN users
  /\ users[KeyOf(call.username)].password # call.password.val
  /\ Cardinality(DOMAIN users) = 2

\* C4: the credential kept for an account is never the plaintext password
\* its registration supplied.
C4_NoPlaintextStored ==
  \A k \in DOMAIN users \cap DOMAIN accepted :
    \A i \in 1..Len(accepted[k]) : users[k].password # accepted[k][i]

\* C5: a login with valid arguments returns 200 only when an account exists
\* for the normalized username and the password is the one it was registered
\* with; otherwise, whether the account is missing or the password is wrong,
\* it returns the same 401 {error: "Invalid username or password."}.
C5_LoginFailuresAlike ==
  (call.op = "login" /\ Valid(call))
    => /\ call.status = 200 <=> call.match
       /\ ~call.match => (call.status = 401 /\ call.body = Unauthorized)

\* C5 witness: a login under the username of an account, with a valid
\* password that is not the account's, has returned 401.
C5_Witness ==
  /\ call.op = "login"
  /\ Valid(call)
  /\ call.present
  /\ ~call.match
  /\ call.status = 401

\* the positions of s that hold no white space
Inked(s) == {i \in 1..Len(s) : s[i] \notin WhiteSpace}

\* the length of s without its leading and trailing white space
TrimmedLength(s) ==
  IF Inked(s) = {}
  THEN 0
  ELSE (CHOOSE i \in Inked(s) : \A j \in Inked(s) : j <= i)
       - (CHOOSE i \in Inked(s) : \A j \in Inked(s) : i <= j) + 1

\* the error of the first rule that fails, in the order of the four rules
FirstFailure(username, password) ==
  IF username.type # "string" \/ password.type # "string"
  THEN "Username and password must be strings."
  ELSE IF TrimmedLength(username.val) = 0
  THEN "Username cannot be empty."
  ELSE IF TrimmedLength(username.val) < 3
  THEN "Username must be at least 3 characters."
  ELSE IF Len(password.val) < 6
  THEN "Password must be at least 6 characters."
  ELSE ""

\* C6: validateCredentials returns the error of the first failing rule, in
\* the order: not both strings; trimmed username empty; trimmed username
\* shorter than 3; raw password shorter than 6; and {valid: true, error: ""}
\* when no rule fails.
C6_ValidationOrder ==
  \A p \in probe : \A v \in p.verdict :
    /\ v.error = FirstFailure(p.username, p.password)
    /\ v.valid <=> FirstFailure(p.username, p.password) = ""

\* C6 witness: a username of 3 letters inside white space, with a password
\* of 6 characters that begins and ends with white space, has been accepted.
C6_Witness ==
  \E p \in probe :
    /\ p.verdict = {[valid |-> TRUE, error |-> ""]}
    /\ Len(p.username.val) > 3
    /\ TrimmedLength(p.username.val) = 3
    /\ Len(p.password.val) = 6
    /\ TrimmedLength(p.password.val) < 5

\* C7: when validateCredentials rejects the arguments, register and login
\* return 400 with the validator's message as {error}, whatever the store
\* holds, and leave the store unchanged.
C7_ValidationFirst ==
  (call.op \in {"register", "login"} /\ ~Valid(call))
    => /\ call.status = 400
       /\ call.body =
            [error |->
               validateCredentials(call.username, call.password).error]
       /\ ~call.changed

\* C7 witness: a registration under the username of an account, with a
\* password of 5 characters, has returned 400.
C7_Witness ==
  /\ call.op = "register"
  /\ call.present
  /\ call.password.type = "string"
  /\ Len(call.password.val) = 5
  /\ call.status = 400

\* C8: a login leaves the account collection exactly as it found it,
\* whatever status it returns.
C8_LoginReadOnly ==
  [][call'.op = "login" /\ call' # call => users' = users]_vars

\* C8 witness: a rejected login (401) has happened on a store that holds an
\* account under its key.
C8_Witness ==
  /\ call.op = "login"
  /\ call.status = 401
  /\ call.present
  /\ ~call.changed

\* every account ever created is still there with the credential of its
\* first registration, and that password logs in
FirstRegistrationStands ==
  /\ \A k \in DOMAIN accepted :
       k \in DOMAIN users /\ users[k].password = accepted[k][1]
  /\ (call.op = "login" /\ Valid(call) /\ call.match) => call.status = 200

\* C9 as stated: accounts are never removed, their credential never
\* changes, the password of the first registration keeps logging in, and the
\* password of a later registration rejected with 409 never logs in.
C9_AsStated ==
  /\ FirstRegistrationStands
  /\ (call.op = "login" /\ call.again = "rejected") => call.status # 200

\* C9 amended: accounts are never removed, their credential never changes,
\* the password of the first registration keeps logging in, and the password
\* of a later registration rejected with 409 logs in only if it is the
\* password of the first registration.
C9_Monotonic ==
  /\ [](/\ FirstRegistrationStands
        /\ (call.op = "login" /\ call.again = "rejected")
             => (call.status = 200 <=> call.match))
  /\ [][\A k \in DOMAIN users :
          k \in DOMAIN users' /\ users'[k] = users[k]]_vars

\* C9 witness: the login repeating a rejected registration, whose password
\* was not the account's, has returned 401.
C9_Witness ==
  /\ call.op = "login"
  /\ call.again = "rejected"
  /\ call.present
  /\ ~call.match
  /\ call.status = 401

\* C10: whatever the order of the handler invocations, no key ever gets two
\* 201 responses; a registration that passes validation gets 409 when its
\* key has an account and 201 when it has none; and every account in the
\* store is whole.
C10_HandlersAtomic ==
  /\ \A k \in DOMAIN accepted : Len(accepted[k]) = 1
  /\ (call.op = "register" /\ call.status # 400)
       => /\ call.present => (call.status = 409 /\ ~call.changed)
          /\ ~call.present => (call.status = 201 /\ call.changed)
  /\ \A k \in DOMAIN users :
       /\ k \in DOMAIN accepted
       /\ users[k] = [username |-> k, password |-> accepted[k][1]]
  /\ \A r \in result : r.status = call.status

\* C10 witness: handleRegister has set a 409 result for a key that holds an
\* account, while the store holds two accounts.
C10_Witness ==
  /\ call.op = "register"
  /\ call.present
  /\ Cardinality(DOMAIN users) = 2
  /\ \E r \in result :
       r = [action |-> "Register", status |-> 409,
            error |-> "Username already exists."]

====
